---- MODULE Spec2Model ----
(***************************************************************************)
(* IPFIX template engine of libfds (src/template_mgr/template.c).          *)
(*                                                                         *)
(* A template is parsed from wire bytes into a heap-allocated structure    *)
(* with a separately allocated copy of the raw bytes; afterwards it is     *)
(* annotated by fds_template_ies_define and fds_template_flowkey_define,   *)
(* cloned by fds_template_copy and released by fds_template_destroy.       *)
(* The caller is a single thread that holds two template pointers          *)
(* (c_tmplt, the parse result, and c_cpy, the copy).                      *)
(***************************************************************************)
EXTENDS Integers, Sequences, FiniteSets, TLC

VARIABLES
    heap,     \* dynamic memory: block -> contents
    c_tmplt,  \* caller's template pointer, the out-parameter of parse
    c_len,    \* caller's length variable, the in/out parameter of parse
    c_cpy,    \* caller's pointer to the result of fds_template_copy
    c_ret,    \* return code of the last parse / flowkey call
    trace,    \* malloc/free events of the last parse / copy / destroy call
    call,     \* arguments of the last fds_template_parse call
    fkey,     \* history: pointer -> last flow key successfully defined
    pc        \* caller position: "idle", "parsed", "failed", "released"

vars == <<heap, c_tmplt, c_len, c_cpy, c_ret, trace, call, fkey, pc>>

----------------------------------------------------------------------------
(* Bounds of the model *)

\* Field Specifiers per well-formed template
MaxFields == 3
\* Field Specifiers per input of the malformed-input family
MaxHdrFields == 3
\* bytes cut from the end of an input
MaxCut == 3
\* the largest flow key of the lifecycle specification
MaxKey == 9
\* the largest scope field count of the Options Template specification
MaxScope == 3

----------------------------------------------------------------------------
(* Program constants *)

IPFIX_SET_MIN_DATA_SET_ID == 256
IPFIX_VAR_IE_LENGTH == 65535
UINT16_MAX == 65535
\* sizeof(struct ipfix_header), sizeof(struct ipfix_set_header)
IPFIX_HDR_SIZE == 16
IPFIX_SET_HDR_SIZE == 4
\* sizeof(template_ie)
field_size == 4
\* sizeof record headers without the first Field Specifier
size_normal == 4
size_opts == 6
\* the enterprise bit of an IE id word
EN_BIT == 32768

FDS_OK == "FDS_OK"
FDS_ERR_FORMAT == "FDS_ERR_FORMAT"
FDS_ERR_NOMEM == "FDS_ERR_NOMEM"

FDS_TYPE_TEMPLATE == "FDS_TYPE_TEMPLATE"
FDS_TYPE_TEMPLATE_OPTS == "FDS_TYPE_TEMPLATE_OPTS"

FDS_TFIELD_SCOPE == "SCOPE"
FDS_TFIELD_MULTI_IE == "MULTI_IE"
FDS_TFIELD_LAST_IE == "LAST_IE"
FDS_TFIELD_FLOW_KEY == "FLOW_KEY"
FDS_TFIELD_STRUCTURED == "STRUCTURED"
FDS_TFIELD_REVERSE == "REVERSE"
FDS_TFIEDL_BKEY_COM == "BKEY_COM"
FDS_TFIELD_BKEY_SRC == "BKEY_SRC"
FDS_TFIELD_BKEY_DST == "BKEY_DST"

FDS_TEMPLATE_HAS_MULTI_IE == "HAS_MULTI_IE"
FDS_TEMPLATE_HAS_DYNAMIC == "HAS_DYNAMIC"
FDS_TEMPLATE_HAS_REVERSE == "HAS_REVERSE"
FDS_TEMPLATE_HAS_STRUCT == "HAS_STRUCT"
FDS_TEMPLATE_HAS_FKEY == "HAS_FKEY"

FDS_OPTS_MPROC_STAT == "MPROC_STAT"
FDS_OPTS_MPROC_RELIABILITY_STAT == "MPROC_RELIABILITY_STAT"
FDS_OPTS_EPROC_RELIABILITY_STAT == "EPROC_RELIABILITY_STAT"
FDS_OPTS_FKEYS == "FKEYS"
FDS_OPTS_IE_TYPE == "IE_TYPE"

\* the null pointer, and the null IE definition reference
NULL == 0
NoDef == "NULL"

----------------------------------------------------------------------------
(* Dynamic memory *)

Block == 1..4

FreeBlk == [kind |-> "free"]

IsLive(mem, p) == p \in Block /\ mem[p].kind # "free"

LiveBlocks(mem) == {b \in Block : mem[b].kind # "free"}

\* A heap context threaded through one API call: the memory, the events of
\* the call and the number of allocation requests made so far.
Ctx(mem) == [mem |-> mem, trace |-> <<>>, n |-> 0]

\* malloc / calloc: the request number h.n+1 fails when it is in `fail` or no
\* block is left; otherwise the lowest free block is returned holding `val`.
Alloc(h, val, fail) ==
    LET k == h.n + 1
        free == {b \in Block : h.mem[b].kind = "free"}
    IN  IF k \in fail \/ free = {}
        THEN [h |-> [h EXCEPT !.n = k,
                              !.trace = Append(@, [op |-> "malloc", blk |-> NULL])],
              p |-> NULL]
        ELSE LET b == CHOOSE x \in free : \A y \in free : x <= y
             IN  [h |-> [mem   |-> [h.mem EXCEPT ![b] = val],
                         trace |-> Append(h.trace, [op |-> "malloc", blk |-> b]),
                         n     |-> k],
                  p |-> b]

\* free: a no-op on NULL; freeing a block that is not live is recorded as
\* "badfree" (a double or invalid free).
Free(h, p) ==
    IF p = NULL
    THEN [h EXCEPT !.trace = Append(@, [op |-> "free", blk |-> NULL])]
    ELSE IF IsLive(h.mem, p)
    THEN [h EXCEPT !.mem[p] = FreeBlk,
                   !.trace = Append(@, [op |-> "free", blk |-> p])]
    ELSE [h EXCEPT !.trace = Append(@, [op |-> "badfree", blk |-> p])]

----------------------------------------------------------------------------
(* Byte order conversions on a byte sequence; `off` is a 0-based offset *)

ntohs(ptr, off) == ptr[off + 1] * 256 + ptr[off + 2]

ntohl(ptr, off) ==
    ((ptr[off + 1] * 256 + ptr[off + 2]) * 256 + ptr[off + 3]) * 256 + ptr[off + 4]

EN_BIT_GET(value) == IF value >= EN_BIT THEN EN_BIT ELSE 0

EN_BIT_MASK(value) == value % EN_BIT

----------------------------------------------------------------------------
(* Template structure *)

\* a Field Specifier of a zeroed (calloc) template
ZeroField ==
    [id |-> 0, en |-> 0, length |-> 0, offset |-> 0, flags |-> {}, def |-> NoDef]

\* template_create_empty: calloc of the structure with field_cnt fields
template_create_empty(field_cnt) ==
    [kind |-> "tmplt",
     type |-> FDS_TYPE_TEMPLATE, id |-> 0,
     fields_cnt_total |-> 0, fields_cnt_scope |-> 0,
     data_length |-> 0, flags |-> {}, opts_types |-> {},
     raw |-> [data |-> NULL, length |-> 0],
     fields |-> [i \in 1..field_cnt |-> ZeroField]]

RawBlk(bytes) == [kind |-> "raw", data |-> bytes]

----------------------------------------------------------------------------
(* Parsing *)

\* result of a parsing step that failed with code `rc` in heap context h
Failed(rc, h) == [ret |-> rc, len |-> 0, p |-> NULL, h |-> h]

\* faulty variant: an Options record always carries a scope count
is_opts_always(type, fields_total) == type = FDS_TYPE_TEMPLATE_OPTS

\* not a withdrawal, so definitely an Options Template with a 6-byte header
is_opts_record(type, fields_total) ==
    fields_total # 0 /\ type = FDS_TYPE_TEMPLATE_OPTS

\* faulty variant: a scope count of zero is let through
scope_invalid_nozero(fields_scope, fields_total) == fields_scope > fields_total

\* the scope count of an Options Template is out of range
scope_invalid(fields_scope, fields_total) ==
    fields_scope = 0 \/ fields_scope > fields_total

\* template_parse_header: on success the new structure is block .p and .len
\* is the size of the header; `len` is the maximal length of the input.
template_parse_header(type, ptr, len, h, fail) ==
    IF len < size_normal THEN Failed(FDS_ERR_FORMAT, h)
    ELSE
    LET template_id == ntohs(ptr, 0) IN
    IF template_id < IPFIX_SET_MIN_DATA_SET_ID THEN Failed(FDS_ERR_FORMAT, h)
    ELSE
    LET fields_total == ntohs(ptr, 2)
        is_opts == is_opts_record(type, fields_total)
    IN
    IF is_opts /\ len < size_opts THEN Failed(FDS_ERR_FORMAT, h)
    ELSE
    LET header_size == IF is_opts THEN size_opts ELSE size_normal
        fields_scope == IF is_opts THEN ntohs(ptr, 4) ELSE 0
    IN
    IF is_opts /\ scope_invalid(fields_scope, fields_total)
    THEN Failed(FDS_ERR_FORMAT, h)
    ELSE
    LET created(a) ==
            IF a.p = NULL THEN Failed(FDS_ERR_NOMEM, a.h)
            ELSE [ret |-> FDS_OK,
                  len |-> header_size,
                  p   |-> a.p,
                  h   |-> [a.h EXCEPT !.mem[a.p].type = type,
                                      !.mem[a.p].id = template_id,
                                      !.mem[a.p].fields_cnt_total = fields_total,
                                      !.mem[a.p].fields_cnt_scope = fields_scope]]
    IN  created(Alloc(h, template_create_empty(fields_total), fail))

\* The loop of template_parse_fields from field i (1-based) on: `pos` is the
\* 0-based offset of field_ptr in the input, len_remain the bytes left.
RECURSIVE parse_fields_loop(_, _, _, _, _)
parse_fields_loop(fields, ptr, pos, len_remain, i) ==
    IF i > Len(fields) THEN [ret |-> FDS_OK, fields |-> fields, len_remain |-> len_remain]
    ELSE IF len_remain < field_size
    THEN [ret |-> FDS_ERR_FORMAT, fields |-> fields, len_remain |-> len_remain]
    ELSE
    LET length == ntohs(ptr, pos + 2)
        id     == ntohs(ptr, pos)
    IN
    IF EN_BIT_GET(id) = 0
    THEN parse_fields_loop([fields EXCEPT ![i].length = length, ![i].id = id],
                           ptr, pos + field_size, len_remain - field_size, i + 1)
    ELSE IF len_remain - field_size < field_size
    THEN [ret |-> FDS_ERR_FORMAT, fields |-> fields, len_remain |-> len_remain]
    ELSE parse_fields_loop([fields EXCEPT ![i].length = length,
                                          ![i].id = EN_BIT_MASK(id),
                                          ![i].en = ntohl(ptr, pos + field_size)],
                           ptr, pos + 2 * field_size, len_remain - 2 * field_size, i + 1)

\* template_parse_fields: `t` is the template structure, `pos` the offset of
\* the first Field Specifier, `len` the maximal remaining length; on success
\* .len is the real length of the Field Specifiers.
template_parse_fields(t, ptr, pos, len) ==
    LET parsed(r) ==
            IF r.ret # FDS_OK
            THEN [ret |-> r.ret, len |-> len, t |-> [t EXCEPT !.fields = r.fields]]
            ELSE [ret |-> FDS_OK, len |-> len - r.len_remain,
                  t |-> [t EXCEPT !.fields = r.fields]]
    IN  parsed(parse_fields_loop(t.fields, ptr, pos, len, 1))

----------------------------------------------------------------------------
(* Lookup *)

\* fds_template_cfind / fds_template_find: the (1-based) index of the first
\* field with the given enterprise number and id, or NULL.
fds_template_cfind(t, en, id) ==
    LET hits == {i \in 1..t.fields_cnt_total : t.fields[i].id = id /\ t.fields[i].en = en}
    IN  IF hits = {} THEN NULL ELSE CHOOSE i \in hits : \A j \in hits : i <= j

fds_template_find(t, en, id) == fds_template_cfind(t, en, id)

----------------------------------------------------------------------------
(* Options Template classification *)

\* faulty variant: the scope fields are searched too
opts_has_required_all(t, recs) ==
    \A r \in 1..Len(recs) :
        \E i \in 1..t.fields_cnt_total :
            t.fields[i].id = recs[r].id /\ t.fields[i].en = recs[r].en

\* opts_has_required: every required IE occurs among the non-scope fields
opts_has_required(t, recs) ==
    \A r \in 1..Len(recs) :
        \E i \in (t.fields_cnt_scope + 1)..t.fields_cnt_total :
            t.fields[i].id = recs[r].id /\ t.fields[i].en = recs[r].en

\* The loop of opts_has_obs_time from field i on with `matches` so far
RECURSIVE obs_time_loop(_, _, _)
obs_time_loop(t, i, matches) ==
    IF i > t.fields_cnt_total THEN matches = 2
    ELSE IF t.fields[i].en # 0 THEN obs_time_loop(t, i + 1, matches)
    ELSE IF t.fields[i].id < 322 \/ t.fields[i].id > 325
    THEN obs_time_loop(t, i + 1, matches)
    ELSE IF matches + 1 > 2 THEN FALSE
    ELSE obs_time_loop(t, i + 1, matches + 1)

\* faulty variant: any two or more observation times make an interval
opts_has_obs_time_atleast(t) ==
    Cardinality({i \in (t.fields_cnt_scope + 1)..t.fields_cnt_total :
                    t.fields[i].en = 0 /\ t.fields[i].id \in 322..325}) >= 2

opts_has_obs_time(t) == obs_time_loop(t, t.fields_cnt_scope + 1, 0)

\* a found scope field is acceptable to the Metering Process, Flow Keys and
\* IE Type detectors: in the scope and not defined more than once
scope_single(t, idx) ==
    /\ FDS_TFIELD_SCOPE \in t.fields[idx].flags
    /\ FDS_TFIELD_MULTI_IE \notin t.fields[idx].flags

ids_mproc == <<[id |-> 40, en |-> 0], [id |-> 41, en |-> 0], [id |-> 42, en |-> 0]>>
ids_mproc_stat == <<[id |-> 164, en |-> 0], [id |-> 165, en |-> 0]>>
ids_exp == <<[id |-> 166, en |-> 0], [id |-> 167, en |-> 0], [id |-> 168, en |-> 0]>>
ids_key == <<[id |-> 173, en |-> 0]>>
ids_type == <<[id |-> 339, en |-> 0], [id |-> 344, en |-> 0], [id |-> 341, en |-> 0]>>

opts_detect_mproc(t) ==
    LET odid_ptr == fds_template_find(t, 0, 149)
        mpid_ptr == fds_template_find(t, 0, 143)
    IN
    IF odid_ptr = NULL /\ mpid_ptr = NULL THEN t
    ELSE IF \E ptr \in {odid_ptr, mpid_ptr} : ptr # NULL /\ ~scope_single(t, ptr) THEN t
    ELSE
    LET reliability(t1) ==
            IF ~opts_has_required(t1, ids_mproc_stat) THEN t1
            ELSE IF opts_has_obs_time(t1)
            THEN [t1 EXCEPT !.opts_types = @ \cup {FDS_OPTS_MPROC_RELIABILITY_STAT}]
            ELSE t1
    IN  reliability(IF opts_has_required(t, ids_mproc)
                    THEN [t EXCEPT !.opts_types = @ \cup {FDS_OPTS_MPROC_STAT}]
                    ELSE t)

\* the exporter identifiers in the order they are tried
eid == <<130, 131, 144>>

\* faulty variant: the exporter identifier found is only required to be in
\* the scope
opts_detect_eproc_scope(t) ==
    LET eid_found ==
            \E i \in 1..Len(eid) :
                LET field_ptr == fds_template_find(t, 0, eid[i])
                IN  /\ field_ptr # NULL
                    /\ FDS_TFIELD_SCOPE \in t.fields[field_ptr].flags
    IN
    IF ~eid_found THEN t
    ELSE IF ~opts_has_required(t, ids_exp) THEN t
    ELSE IF opts_has_obs_time(t)
    THEN [t EXCEPT !.opts_types = @ \cup {FDS_OPTS_EPROC_RELIABILITY_STAT}]
    ELSE t

opts_detect_eproc(t) ==
    LET eid_found ==
            \E i \in 1..Len(eid) :
                LET field_ptr == fds_template_find(t, 0, eid[i])
                IN  /\ field_ptr # NULL
                    /\ FDS_TFIELD_SCOPE \in t.fields[field_ptr].flags
                    /\ FDS_TFIELD_LAST_IE \in t.fields[field_ptr].flags
    IN
    IF ~eid_found THEN t
    ELSE IF ~opts_has_required(t, ids_exp) THEN t
    ELSE IF opts_has_obs_time(t)
    THEN [t EXCEPT !.opts_types = @ \cup {FDS_OPTS_EPROC_RELIABILITY_STAT}]
    ELSE t

opts_detect_flowkey(t) ==
    LET id_ptr == fds_template_find(t, 0, 145) IN
    IF id_ptr = NULL THEN t
    ELSE IF ~scope_single(t, id_ptr) THEN t
    ELSE IF opts_has_required(t, ids_key)
    THEN [t EXCEPT !.opts_types = @ \cup {FDS_OPTS_FKEYS}]
    ELSE t

opts_detect_ietype(t) ==
    LET ie_id_ptr == fds_template_find(t, 0, 303)
        pen_ptr   == fds_template_find(t, 0, 346)
    IN
    IF \E ptr \in {ie_id_ptr, pen_ptr} : ptr = NULL \/ ~scope_single(t, ptr) THEN t
    ELSE IF opts_has_required(t, ids_type)
    THEN [t EXCEPT !.opts_types = @ \cup {FDS_OPTS_IE_TYPE}]
    ELSE t

opts_detector(t) ==
    opts_detect_ietype(opts_detect_flowkey(opts_detect_eproc(opts_detect_mproc(t))))

----------------------------------------------------------------------------
(* Derived flags, offsets and data length *)

AddFlag(fields, i, f) == [fields EXCEPT ![i].flags = @ \cup {f}]

\* the index of the first field after i with the same id and enterprise
\* number, or NULL (the inner loop of template_fields_calc_flags)
same_after(fields, i) ==
    LET hits == {x \in (i + 1)..Len(fields) :
                    fields[x].id = fields[i].id /\ fields[x].en = fields[i].en}
    IN  IF hits = {} THEN NULL ELSE CHOOSE x \in hits : \A y \in hits : x <= y

\* the bit of the 64-bit prefilter an IE id maps to
my_hash(id) == id % 64

\* faulty variant: a field whose prefilter bit is taken but that has no equal after
\* it is not labelled as the last one
calc_flags_step_nolast(fields, i, hash) ==
    IF my_hash(fields[i].id) \notin hash
    THEN AddFlag(fields, i, FDS_TFIELD_LAST_IE)
    ELSE
    LET x == same_after(fields, i) IN
    IF x # NULL
    THEN AddFlag(AddFlag(fields, i, FDS_TFIELD_MULTI_IE), x, FDS_TFIELD_MULTI_IE)
    ELSE fields

\* faulty variant: on a match only the field itself is labelled, not the later one
calc_flags_step_self(fields, i, hash) ==
    IF my_hash(fields[i].id) \notin hash
    THEN AddFlag(fields, i, FDS_TFIELD_LAST_IE)
    ELSE
    LET x == same_after(fields, i) IN
    IF x # NULL
    THEN AddFlag(fields, i, FDS_TFIELD_MULTI_IE)
    ELSE AddFlag(fields, i, FDS_TFIELD_LAST_IE)

\* One iteration of the right-to-left loop of template_fields_calc_flags, at
\* field i; `hash` is the set of bits set in the prefilter.
calc_flags_step(fields, i, hash) ==
    IF my_hash(fields[i].id) \notin hash
    THEN AddFlag(fields, i, FDS_TFIELD_LAST_IE)
    ELSE
    LET x == same_after(fields, i) IN
    IF x # NULL
    THEN AddFlag(AddFlag(fields, i, FDS_TFIELD_MULTI_IE), x, FDS_TFIELD_MULTI_IE)
    ELSE AddFlag(fields, i, FDS_TFIELD_LAST_IE)

\* The loop from field i down to the first; the bit of a field is set in the
\* prefilter when it was clear and is set already otherwise.
RECURSIVE calc_flags_loop(_, _, _)
calc_flags_loop(fields, i, hash) ==
    IF i < 1 THEN fields
    ELSE calc_flags_loop(calc_flags_step(fields, i, hash), i - 1,
                         hash \cup {my_hash(fields[i].id)})

template_fields_calc_flags(t) ==
    LET scoped == [i \in 1..Len(t.fields) |->
                      IF i <= t.fields_cnt_scope
                      THEN [t.fields[i] EXCEPT !.flags = @ \cup {FDS_TFIELD_SCOPE}]
                      ELSE t.fields[i]]
    IN  [t EXCEPT !.fields = calc_flags_loop(scoped, t.fields_cnt_total, {})]

\* faulty variant: the cursor is set to the length instead of advanced by it
offset_add_set(field_offset, field_len) == field_len

\* uint16_t arithmetic of the offset cursor
offset_add(field_offset, field_len) == (field_offset + field_len) % 65536

\* The left-to-right loop of template_calc_features at field i. data_len is
\* a uint32_t; at most 16382 Field Specifiers fit a 16-bit input length, so
\* the sum stays below 2^32 and is kept as an unbounded integer.
RECURSIVE calc_features_loop(_, _, _, _)
calc_features_loop(t, i, data_len, field_offset) ==
    IF i > t.fields_cnt_total THEN [t |-> t, data_len |-> data_len]
    ELSE
    LET t2 == [t EXCEPT !.fields[i].offset = field_offset,
                        !.flags = IF FDS_TFIELD_MULTI_IE \in t.fields[i].flags
                                  THEN @ \cup {FDS_TEMPLATE_HAS_MULTI_IE}
                                  ELSE @]
        field_len == t.fields[i].length
    IN
    IF field_len = IPFIX_VAR_IE_LENGTH
    THEN calc_features_loop([t2 EXCEPT !.flags = @ \cup {FDS_TEMPLATE_HAS_DYNAMIC}],
                            i + 1, data_len + 1, IPFIX_VAR_IE_LENGTH)
    ELSE calc_features_loop(t2, i + 1, data_len + field_len,
                            IF field_offset # IPFIX_VAR_IE_LENGTH
                            THEN offset_add(field_offset, field_len)
                            ELSE field_offset)

\* maximal length of a data record in an IPFIX message
max_rec_size == UINT16_MAX - IPFIX_HDR_SIZE - IPFIX_SET_HDR_SIZE

\* faulty variant: a record of exactly the maximal size is rejected too
too_long_eq(data_len) == max_rec_size <= data_len

\* the record described by the template does not fit into a message
too_long(data_len) == max_rec_size < data_len

\* the assignment of the uint32_t data_len to the uint16_t data_length
store_data_length(data_len) == data_len % 65536

template_calc_features(t) ==
    LET recognized(t1, data_len) ==
            [ret |-> FDS_OK, t |-> [t1 EXCEPT !.data_length = store_data_length(data_len)]]
        checked(r) ==
            IF too_long(r.data_len) THEN [ret |-> FDS_ERR_FORMAT, t |-> r.t]
            ELSE recognized(IF r.t.type = FDS_TYPE_TEMPLATE_OPTS
                            THEN opts_detector(r.t) ELSE r.t,
                            r.data_len)
    IN  checked(calc_features_loop(template_fields_calc_flags(t), 1, 0, 0))

\* faulty variant: the whole input is copied instead of the bytes consumed
template_raw_copy_whole(h, p, ptr, len, fail) ==
    LET copied(a) ==
            IF a.p = NULL
            THEN [ret |-> FDS_ERR_NOMEM, h |-> [a.h EXCEPT !.mem[p].raw.data = NULL]]
            ELSE [ret |-> FDS_OK,
                  h   |-> [a.h EXCEPT !.mem[p].raw = [data |-> a.p, length |-> len]]]
    IN  copied(Alloc(h, RawBlk(ptr), fail))

\* template_raw_copy: malloc of `len` bytes and memcpy of the input into it
template_raw_copy(h, p, ptr, len, fail) ==
    LET copied(a) ==
            IF a.p = NULL
            THEN [ret |-> FDS_ERR_NOMEM, h |-> [a.h EXCEPT !.mem[p].raw.data = NULL]]
            ELSE [ret |-> FDS_OK,
                  h   |-> [a.h EXCEPT !.mem[p].raw = [data |-> a.p, length |-> len]]]
    IN  copied(Alloc(h, RawBlk(SubSeq(ptr, 1, len)), fail))

\* faulty variant: the raw copy is not released
fds_template_destroy_leak(h, p) == Free(h, p)

\* fds_template_destroy
fds_template_destroy(h, p) == Free(Free(h, h.mem[p].raw.data), p)

\* an error return of fds_template_parse: the out-parameters keep their values
parse_error(rc, len, tmplt, h) == [ret |-> rc, len |-> len, tmplt |-> tmplt, h |-> h]

\* fds_template_parse: `len` and `tmplt` are the values of the caller's
\* in/out parameters before the call, `mem` the memory, `fail` the allocation
\* requests that fail; .len and .tmplt are their values after the call.
fds_template_parse(type, ptr, len, tmplt, mem, fail) ==
    LET \* from template_calc_features on; h is the heap with the raw copy
        finish(template, len_real, h, cf) ==
            IF cf.ret # FDS_OK
            THEN parse_error(cf.ret, len, tmplt,
                             fds_template_destroy([h EXCEPT !.mem[template] = cf.t],
                                                  template))
            ELSE [ret |-> FDS_OK, len |-> len_real, tmplt |-> template,
                  h |-> [h EXCEPT !.mem[template] = cf.t]]
        \* from the result rc of template_raw_copy on
        with_raw(template, len_real, rc) ==
            IF rc.ret # FDS_OK
            THEN parse_error(rc.ret, len, tmplt, fds_template_destroy(rc.h, template))
            ELSE finish(template, len_real, rc.h,
                        template_calc_features(rc.h.mem[template]))
        \* from the result pf of template_parse_fields on; h1 is the heap with
        \* the fields parsed so far
        with_fields(template, len_header, h1, pf) ==
            IF pf.ret # FDS_OK
            THEN parse_error(pf.ret, len, tmplt, fds_template_destroy(h1, template))
            ELSE with_raw(template, len_header + pf.len,
                          template_raw_copy(h1, template, ptr, len_header + pf.len, fail))
        \* a Template Withdrawal: only the header is copied
        withdrawal(template, len_header, rc) ==
            IF rc.ret # FDS_OK
            THEN parse_error(rc.ret, len, tmplt, fds_template_destroy(rc.h, template))
            ELSE [ret |-> FDS_OK, len |-> len_header, tmplt |-> template, h |-> rc.h]
        fields_of(template, len_header, h, pf) ==
            with_fields(template, len_header, [h EXCEPT !.mem[template] = pf.t], pf)
        \* from the result hdr of template_parse_header on
        with_header(hdr) ==
            IF hdr.ret # FDS_OK THEN parse_error(hdr.ret, len, tmplt, hdr.h)
            ELSE IF hdr.h.mem[hdr.p].fields_cnt_total = 0
            THEN withdrawal(hdr.p, hdr.len,
                            template_raw_copy(hdr.h, hdr.p, ptr, hdr.len, fail))
            ELSE fields_of(hdr.p, hdr.len, hdr.h,
                           template_parse_fields(hdr.h.mem[hdr.p], ptr, hdr.len,
                                                 len - hdr.len))
    IN  with_header(template_parse_header(type, ptr, len, Ctx(mem), fail))

----------------------------------------------------------------------------
(* Information Element dictionary (the IE manager, an external collaborator) *)

\* no IE manager
NoMgr == "NULL"

\* data types; the last three are the structured ones (RFC 6313)
FDS_ET_UNSIGNED_64 == "FDS_ET_UNSIGNED_64"
FDS_ET_IPV4_ADDRESS == "FDS_ET_IPV4_ADDRESS"
FDS_ET_BASIC_LIST == "FDS_ET_BASIC_LIST"
FDS_ET_SUB_TEMPLATE_LIST == "FDS_ET_SUB_TEMPLATE_LIST"
FDS_ET_SUB_TEMPLATE_MULTILIST == "FDS_ET_SUB_TEMPLATE_MULTILIST"

Elem(mgr, pen, id, name, data_type, is_reverse, reverse_elem) ==
    [mgr |-> mgr, pen |-> pen, id |-> id, name |-> name, data_type |-> data_type,
     is_reverse |-> is_reverse, reverse_elem |-> reverse_elem]

\* The definitions the dictionaries hold, by reference; names are ASCII codes.
\* D1 is the IANA dictionary with the reverse element of octetDeltaCount
\* under PEN 29305 (RFC 5103); D2 defines the same identifiers otherwise.
ElemTable ==
    [r \in {"D1.sourceIPv4Address", "D1.octetDeltaCount",
            "D1.reverseOctetDeltaCount", "D1.basicList",
            "D2.DestinationList", "D2.octets"} |->
        CASE r = "D1.sourceIPv4Address" ->
                Elem("D1", 0, 8, <<115, 111, 117, 114, 99, 101, 73, 80, 118, 52, 65, 100, 100, 114, 101, 115, 115>>, FDS_ET_IPV4_ADDRESS, FALSE, NoDef)
          [] r = "D1.octetDeltaCount" ->
                Elem("D1", 0, 1, <<111, 99, 116, 101, 116, 68, 101, 108, 116, 97, 67, 111, 117, 110, 116>>, FDS_ET_UNSIGNED_64, FALSE,
                     "D1.reverseOctetDeltaCount")
          [] r = "D1.reverseOctetDeltaCount" ->
                Elem("D1", 29305, 1, <<114, 101, 118, 101, 114, 115, 101, 79, 99, 116, 101, 116, 68, 101, 108, 116, 97, 67, 111, 117, 110, 116>>, FDS_ET_UNSIGNED_64, TRUE,
                     "D1.octetDeltaCount")
          [] r = "D1.basicList" ->
                Elem("D1", 0, 291, <<98, 97, 115, 105, 99, 76, 105, 115, 116>>, FDS_ET_BASIC_LIST, FALSE, NoDef)
          [] r = "D2.DestinationList" ->
                Elem("D2", 0, 8, <<68, 101, 115, 116, 105, 110, 97, 116, 105, 111, 110, 76, 105, 115, 116>>, FDS_ET_SUB_TEMPLATE_LIST, FALSE, NoDef)
          [] r = "D2.octets" ->
                Elem("D2", 0, 1, <<>>, FDS_ET_UNSIGNED_64, TRUE, NoDef)]

Mgrs == {"D1", "D2"}

\* fds_iemgr_elem_find_id: the definition of (en, id) in the manager, or NULL
fds_iemgr_elem_find_id(iemgr, en, id) ==
    LET hits == {r \in DOMAIN ElemTable :
                    /\ ElemTable[r].mgr = iemgr
                    /\ ElemTable[r].pen = en
                    /\ ElemTable[r].id = id}
    IN  IF hits = {} THEN NoDef ELSE CHOOSE r \in hits : TRUE

\* is_structured
is_structured(elem) ==
    elem.data_type \in {FDS_ET_BASIC_LIST, FDS_ET_SUB_TEMPLATE_LIST,
                        FDS_ET_SUB_TEMPLATE_MULTILIST}

\* ASCII lower case
tolower(c) == IF c >= 65 /\ c <= 90 THEN c + 32 ELSE c

\* strncasecmp(name, pattern, n) == 0 for a pattern of n characters
strncasecmp_eq(name, pattern, n) ==
    /\ Len(name) >= n
    /\ \A i \in 1..n : tolower(name[i]) = tolower(pattern[i])

str_source == <<115, 111, 117, 114, 99, 101>>
str_destination == <<100, 101, 115, 116, 105, 110, 97, 116, 105, 111, 110>>

----------------------------------------------------------------------------
(* IE binding *)

biflags == {FDS_TFIELD_BKEY_SRC, FDS_TFIELD_BKEY_DST, FDS_TFIEDL_BKEY_COM}

\* faulty variant: the reverse element of the definition is not looked for in
\* the template
biflow_common_nopair(t, i) ==
    LET def == t.fields[i].def IN
    IF def = NoDef THEN TRUE ELSE ~ElemTable[def].is_reverse

\* the field is neither a reverse field nor the forward field of a reverse
\* field of the template (the two `continue`s of template_ies_biflow)
biflow_common(t, i) ==
    LET def == t.fields[i].def IN
    IF def = NoDef THEN TRUE
    ELSE IF ElemTable[def].is_reverse THEN FALSE
    ELSE LET def_rev == ElemTable[def].reverse_elem IN
         ~(def_rev # NoDef
           /\ fds_template_cfind(t, ElemTable[def_rev].pen, ElemTable[def_rev].id) # NULL)

\* the flags template_ies_biflow adds to field i
biflow_flags(t, i) ==
    LET def == t.fields[i].def IN
    IF ~biflow_common(t, i) THEN {}
    ELSE IF def = NoDef \/ ElemTable[def].name = <<>> THEN {FDS_TFIEDL_BKEY_COM}
    ELSE IF strncasecmp_eq(ElemTable[def].name, str_source, 6)
    THEN {FDS_TFIEDL_BKEY_COM, FDS_TFIELD_BKEY_SRC}
    ELSE IF strncasecmp_eq(ElemTable[def].name, str_destination, 11)
    THEN {FDS_TFIEDL_BKEY_COM, FDS_TFIELD_BKEY_DST}
    ELSE {FDS_TFIEDL_BKEY_COM}

\* the assertions of template_ies_biflow hold
biflow_asserts(t) ==
    /\ FDS_TEMPLATE_HAS_REVERSE \in t.flags
    /\ \A i \in 1..t.fields_cnt_total :
        /\ t.fields[i].flags \cap biflags = {}
        /\ (t.fields[i].def # NoDef /\ ElemTable[t.fields[i].def].is_reverse)
               => FDS_TFIELD_REVERSE \in t.fields[i].flags
        /\ biflow_common(t, i) => FDS_TFIELD_REVERSE \notin t.fields[i].flags

\* template_ies_biflow
template_ies_biflow(t) ==
    [t EXCEPT !.fields = [i \in 1..Len(t.fields) |->
        [t.fields[i] EXCEPT !.flags = @ \cup biflow_flags(t, i)]]]

\* faulty variant: all flags of the field are cleared, not only the biflow ones
ies_define_field_wipe(f, iemgr, preserve) ==
    LET f1 == [f EXCEPT !.flags = {}] IN
    IF preserve /\ f1.def # NoDef THEN f1
    ELSE
    LET f2 == [f1 EXCEPT !.flags = @ \ {FDS_TFIELD_REVERSE, FDS_TFIELD_STRUCTURED}]
        def_ptr == IF iemgr = NoMgr THEN NoDef
                   ELSE fds_iemgr_elem_find_id(iemgr, f2.en, f2.id)
    IN
    IF def_ptr = NoDef THEN [f2 EXCEPT !.def = NoDef]
    ELSE [f2 EXCEPT !.def = def_ptr,
                    !.flags = @ \cup (IF ElemTable[def_ptr].is_reverse
                                      THEN {FDS_TFIELD_REVERSE} ELSE {})
                                \cup (IF is_structured(ElemTable[def_ptr])
                                      THEN {FDS_TFIELD_STRUCTURED} ELSE {})]

\* faulty variant: the REVERSE and STRUCTURED flags of the previous definition
\* are not removed
ies_define_field_keep(f, iemgr, preserve) ==
    LET f1 == [f EXCEPT !.flags = @ \ biflags] IN
    IF preserve /\ f1.def # NoDef THEN f1
    ELSE
    LET def_ptr == IF iemgr = NoMgr THEN NoDef
                   ELSE fds_iemgr_elem_find_id(iemgr, f1.en, f1.id)
    IN
    IF def_ptr = NoDef THEN [f1 EXCEPT !.def = NoDef]
    ELSE [f1 EXCEPT !.def = def_ptr,
                    !.flags = @ \cup (IF ElemTable[def_ptr].is_reverse
                                      THEN {FDS_TFIELD_REVERSE} ELSE {})
                                \cup (IF is_structured(ElemTable[def_ptr])
                                      THEN {FDS_TFIELD_STRUCTURED} ELSE {})]

\* One iteration of the loop of fds_template_ies_define: the field after it
ies_define_field(f, iemgr, preserve) ==
    LET f1 == [f EXCEPT !.flags = @ \ biflags] IN
    IF preserve /\ f1.def # NoDef THEN f1
    ELSE
    LET f2 == [f1 EXCEPT !.flags = @ \ {FDS_TFIELD_REVERSE, FDS_TFIELD_STRUCTURED}]
        def_ptr == IF iemgr = NoMgr THEN NoDef
                   ELSE fds_iemgr_elem_find_id(iemgr, f2.en, f2.id)
    IN
    IF def_ptr = NoDef THEN [f2 EXCEPT !.def = NoDef]
    ELSE [f2 EXCEPT !.def = def_ptr,
                    !.flags = @ \cup (IF ElemTable[def_ptr].is_reverse
                                      THEN {FDS_TFIELD_REVERSE} ELSE {})
                                \cup (IF is_structured(ElemTable[def_ptr])
                                      THEN {FDS_TFIELD_STRUCTURED} ELSE {})]

\* faulty variant: the features are taken from the flags the field had on
\* entry, also when a new definition is bound
ies_define_has_stale(f, iemgr, preserve, flag) == flag \in f.flags

\* what an iteration contributes to has_reverse (flag = FDS_TFIELD_REVERSE)
\* or has_struct (flag = FDS_TFIELD_STRUCTURED): the flag of a preserved
\* definition, or the property of the new one
ies_define_has(f, iemgr, preserve, flag) ==
    IF preserve /\ f.def # NoDef THEN flag \in f.flags
    ELSE
    LET def_ptr == IF iemgr = NoMgr THEN NoDef
                   ELSE fds_iemgr_elem_find_id(iemgr, f.en, f.id)
    IN  /\ def_ptr # NoDef
        /\ IF flag = FDS_TFIELD_REVERSE THEN ElemTable[def_ptr].is_reverse
           ELSE is_structured(ElemTable[def_ptr])

\* fds_template_ies_define: .t is the template after the call, .ok is FALSE
\* when an assertion of template_ies_biflow fails
fds_template_ies_define(t, iemgr, preserve) ==
    IF iemgr = NoMgr /\ preserve THEN [t |-> t, ok |-> TRUE]
    ELSE
    LET n == t.fields_cnt_total
        has_reverse == \E i \in 1..n :
            ies_define_has(t.fields[i], iemgr, preserve, FDS_TFIELD_REVERSE)
        has_struct == \E i \in 1..n :
            ies_define_has(t.fields[i], iemgr, preserve, FDS_TFIELD_STRUCTURED)
        set_mask == (IF has_reverse THEN {FDS_TEMPLATE_HAS_REVERSE} ELSE {})
                        \cup (IF has_struct THEN {FDS_TEMPLATE_HAS_STRUCT} ELSE {})
        clear_mask == (IF ~has_reverse THEN {FDS_TEMPLATE_HAS_REVERSE} ELSE {})
                        \cup (IF ~has_struct THEN {FDS_TEMPLATE_HAS_STRUCT} ELSE {})
        biflow(has, t1) ==
            IF has
            THEN [t |-> template_ies_biflow(t1), ok |-> biflow_asserts(t1)]
            ELSE [t |-> t1, ok |-> TRUE]
    IN  biflow(has_reverse,
               [t EXCEPT !.fields = [i \in 1..Len(t.fields) |->
                                        ies_define_field(t.fields[i], iemgr, preserve)],
                         !.flags = (@ \cup set_mask) \ clear_mask])

----------------------------------------------------------------------------
(* Flow key *)

\* the number of bits up to the highest set bit (the while loop)
RECURSIVE bit_highest(_)
bit_highest(key_cpy) == IF key_cpy = 0 THEN 0 ELSE 1 + bit_highest(key_cpy \div 2)

\* bit i (0-based) of the key, i.e. (flowkey >> i) & 0x1
key_bit(flowkey, i) == (flowkey \div (2 ^ i)) % 2 = 1

\* faulty variant: a key with as many bits as the template has fields is rejected
fds_template_flowkey_applicable_strict(t, flowkey) ==
    IF bit_highest(flowkey) >= t.fields_cnt_total THEN FDS_ERR_FORMAT ELSE FDS_OK

\* fds_template_flowkey_applicable
fds_template_flowkey_applicable(t, flowkey) ==
    IF bit_highest(flowkey) > t.fields_cnt_total THEN FDS_ERR_FORMAT ELSE FDS_OK

\* fds_template_flowkey_define: .ret and the template after the call
fds_template_flowkey_define(t, flowkey) ==
    LET define(ret_code) ==
            IF ret_code # FDS_OK THEN [ret |-> ret_code, t |-> t]
            ELSE [ret |-> FDS_OK,
                  t   |-> [t EXCEPT
                     !.flags = IF flowkey # 0 THEN @ \cup {FDS_TEMPLATE_HAS_FKEY}
                               ELSE @ \ {FDS_TEMPLATE_HAS_FKEY},
                     !.fields = [i \in 1..Len(t.fields) |->
                         [t.fields[i] EXCEPT !.flags =
                             IF key_bit(flowkey, i - 1)
                             THEN @ \cup {FDS_TFIELD_FLOW_KEY}
                             ELSE @ \ {FDS_TFIELD_FLOW_KEY}]]]]
    IN  define(fds_template_flowkey_applicable(t, flowkey))

\* the flow key flags of the fields are those of the key
flowkey_flags_match(t, flowkey) ==
    \A i \in 1..t.fields_cnt_total :
        key_bit(flowkey, i - 1) <=> FDS_TFIELD_FLOW_KEY \in t.fields[i].flags

\* faulty variant: the highest bit of the key is not checked
fds_template_flowkey_cmp_nocheck(t, flowkey) ==
    LET value_exp == flowkey # 0
        value_real == FDS_TEMPLATE_HAS_FKEY \in t.flags
    IN  IF ~value_exp /\ ~value_real THEN 0
        ELSE IF value_exp # value_real THEN 1
        ELSE IF ~flowkey_flags_match(t, flowkey) THEN 1
        ELSE 0

\* fds_template_flowkey_cmp
fds_template_flowkey_cmp(t, flowkey) ==
    LET value_exp == flowkey # 0
        value_real == FDS_TEMPLATE_HAS_FKEY \in t.flags
    IN  IF ~value_exp /\ ~value_real THEN 0
        ELSE IF value_exp # value_real THEN 1
        ELSE IF bit_highest(flowkey) > t.fields_cnt_total THEN 1
        ELSE IF ~flowkey_flags_match(t, flowkey) THEN 1
        ELSE 0

----------------------------------------------------------------------------
(* Copy and comparison *)

\* faulty variant: the copy keeps pointing at the raw buffer of the original
fds_template_copy_shallow(h, p, fail) ==
    LET t == h.mem[p]
        copied(cpy_main, cpy_raw, h2) ==
            IF cpy_main = NULL \/ cpy_raw = NULL
            THEN [p |-> NULL, h |-> Free(Free(h2, cpy_main), cpy_raw)]
            ELSE [p |-> cpy_main, h |-> h2]
        second(a1, a2) == copied(a1.p, a2.p, a2.h)
        first(a1) ==
            second(a1, Alloc(a1.h,
                             RawBlk(SubSeq(h.mem[t.raw.data].data, 1, t.raw.length)),
                             fail))
    IN  first(Alloc(h, t, fail))

\* fds_template_copy: both blocks are requested before either is tested;
\* .p is the copy or NULL
fds_template_copy(h, p, fail) ==
    LET t == h.mem[p]
        copied(cpy_main, cpy_raw, h2) ==
            IF cpy_main = NULL \/ cpy_raw = NULL
            THEN [p |-> NULL, h |-> Free(Free(h2, cpy_main), cpy_raw)]
            ELSE [p |-> cpy_main, h |-> [h2 EXCEPT !.mem[cpy_main].raw.data = cpy_raw]]
        second(a1, a2) == copied(a1.p, a2.p, a2.h)
        first(a1) ==
            second(a1, Alloc(a1.h,
                             RawBlk(SubSeq(h.mem[t.raw.data].data, 1, t.raw.length)),
                             fail))
    IN  first(Alloc(h, t, fail))

\* memcmp of two byte sequences of the same length: -1, 0 or 1
RECURSIVE memcmp(_, _)
memcmp(a, b) ==
    IF a = <<>> THEN 0
    ELSE IF Head(a) < Head(b) THEN -1
    ELSE IF Head(a) > Head(b) THEN 1
    ELSE memcmp(Tail(a), Tail(b))

\* fds_template_cmp on templates t1, t2 of memory mem
fds_template_cmp(mem, t1, t2) ==
    IF t1.raw.length # t2.raw.length
    THEN (IF t1.raw.length > t2.raw.length THEN 1 ELSE -1)
    ELSE memcmp(mem[t1.raw.data].data, mem[t2.raw.data].data)

----------------------------------------------------------------------------
(* Wire encoding of the inputs handed to fds_template_parse *)

U16(n) == <<n \div 256, n % 256>>

U32(n) == <<n \div 16777216, (n \div 65536) % 256, (n \div 256) % 256, n % 256>>

\* a Field Specifier: id word (enterprise bit and IE id), length and, with the
\* enterprise bit, the enterprise number
WireSpec(s) ==
    IF s.ebit THEN U16(EN_BIT + s.id) \o U16(s.length) \o U32(s.en)
    ELSE U16(s.id) \o U16(s.length)

RECURSIVE WireSpecs(_)
WireSpecs(specs) ==
    IF specs = <<>> THEN <<>> ELSE WireSpec(Head(specs)) \o WireSpecs(Tail(specs))

\* the record header; a record of an Options Template Set carries the scope
\* field count after the field count
WireHeader(in) ==
    U16(in.id) \o U16(in.count)
        \o (IF in.type = FDS_TYPE_TEMPLATE_OPTS THEN U16(in.scope) ELSE <<>>)

\* the bytes of input `in`: header and Field Specifiers, without the last
\* in.cut bytes
Wire(in) ==
    LET full == WireHeader(in) \o WireSpecs(in.specs)
    IN  SubSeq(full, 1, IF in.cut >= Len(full) THEN 0 ELSE Len(full) - in.cut)

SeqsUpTo(S, n) == UNION {[1..k -> S] : k \in 0..n}

Types == {FDS_TYPE_TEMPLATE, FDS_TYPE_TEMPLATE_OPTS}

\* the allocation requests of one call that may fail
Fails == {{}, {1}, {2}}

Spec4(ebit, id, en, length) == [ebit |-> ebit, id |-> id, en |-> en, length |-> length]

\* Field Specifiers of the malformed-input family
HdrSpecs == {Spec4(FALSE, 8, 0, 4), Spec4(TRUE, 8, 1, 4)}

\* inputs with any header, truncated anywhere, with or without trailing bytes
MalformedInputs ==
    [type : Types, id : {255, 256}, count : 0..MaxHdrFields,
     scope : 0..(MaxHdrFields + 1), specs : SeqsUpTo(HdrSpecs, MaxHdrFields),
     cut : 0..MaxCut, fail : Fails]

\* Field Specifiers of the well-formed family: ids 8 and 72 share a bit of
\* the prefilter; (0, 8) is given with and without the enterprise bit;
\* lengths 65514 + 1 make the longest record that fits
FieldSpecs ==
    {Spec4(FALSE, 8, 0, 1), Spec4(FALSE, 72, 0, 1),
     Spec4(TRUE, 8, 1, 1), Spec4(TRUE, 8, 0, 1),
     Spec4(FALSE, 8, 0, 65514), Spec4(TRUE, 8, 1, 65514),
     Spec4(FALSE, 8, 0, 65535), Spec4(FALSE, 72, 0, 65535)}

\* complete records with a valid header
WellFormedInputs ==
    {[type |-> ty, id |-> 258, count |-> Len(sp), scope |-> sc, specs |-> sp,
      cut |-> 0, fail |-> {}] :
        ty \in Types, sc \in 1..MaxFields,
        sp \in SeqsUpTo(FieldSpecs, MaxFields) \ {<<>>}}

NoCall ==
    [type |-> "none", id |-> 0, count |-> 0, scope |-> 0, specs |-> <<>>,
     cut |-> 0, fail |-> {}]

----------------------------------------------------------------------------
(* The caller *)

NoKey == [b \in Block |-> 0]

Init ==
    /\ heap = [b \in Block |-> FreeBlk]
    /\ c_tmplt = NULL
    /\ c_len = 0
    /\ c_cpy = NULL
    /\ c_ret = "none"
    /\ trace = <<>>
    /\ call = NoCall
    /\ fkey = NoKey
    /\ pc = "idle"

\* The caller sets its length variable to the length of the input and calls
\* fds_template_parse.
Parse(in) ==
    /\ \E bytes \in {Wire(in)} :
       \E r \in {fds_template_parse(in.type, bytes, Len(bytes), c_tmplt, heap, in.fail)} :
           /\ heap' = r.h.mem
           /\ trace' = r.h.trace
           /\ c_tmplt' = r.tmplt
           /\ c_len' = r.len
           /\ c_ret' = r.ret
           /\ pc' = IF r.ret = FDS_OK THEN "parsed" ELSE "failed"
    /\ call' = in
    /\ UNCHANGED <<c_cpy, fkey>>

ParseMalformed == pc = "idle" /\ \E in \in MalformedInputs : Parse(in)

ParseWellFormed ==
    /\ pc = "idle"
    /\ \E in \in WellFormedInputs :
        /\ in.type = FDS_TYPE_TEMPLATE => in.scope = 1
        /\ in.scope <= in.count
        /\ Parse(in)

\* The caller drops a record that failed to parse, or goes on after it
\* released its last template.
Drop ==
    /\ pc \in {"failed", "released"}
    /\ pc' = "idle"
    /\ c_len' = 0
    /\ c_ret' = "none"
    /\ trace' = <<>>
    /\ call' = NoCall
    /\ UNCHANGED <<heap, c_tmplt, c_cpy, fkey>>

\* the template pointers the caller holds
Held == {c_tmplt, c_cpy} \ {NULL}

\* The caller destroys a template it holds.
Destroy(p) ==
    /\ \E h \in {fds_template_destroy(Ctx(heap), p)} :
       /\ heap' = h.mem
       /\ trace' = h.trace
    /\ c_tmplt' = IF p = c_tmplt THEN NULL ELSE c_tmplt
    /\ c_cpy' = IF p = c_cpy THEN NULL ELSE c_cpy
    /\ fkey' = [fkey EXCEPT ![p] = 0]
    /\ IF Held = {p}
       THEN pc' = "released" /\ c_len' = 0 /\ c_ret' = "none" /\ call' = NoCall
       ELSE UNCHANGED <<pc, c_len, c_ret, call>>

DestroyCall == pc = "parsed" /\ \E p \in Held : Destroy(p)

Next == ParseMalformed \/ ParseWellFormed \/ DestroyCall \/ Drop

Spec == Init /\ [][Next]_vars

----------------------------------------------------------------------------
(* The life of a template *)

\* Field Specifiers of the lifecycle family: sourceIPv4Address,
\* octetDeltaCount and its reverse element
SpecSrc == Spec4(FALSE, 8, 0, 4)
SpecFwd == Spec4(FALSE, 1, 0, 8)
SpecRev == Spec4(TRUE, 1, 29305, 8)

\* the records of the lifecycle family: a withdrawal, single fields, a
\* repeated field, a forward field with its reverse field in both orders and
\* records of a biflow with and without an address
LifeRecords ==
    {<<>>, <<SpecSrc>>, <<SpecFwd>>, <<SpecRev>>,
     <<SpecSrc, SpecFwd>>, <<SpecFwd, SpecFwd>>,
     <<SpecFwd, SpecRev>>, <<SpecRev, SpecFwd>>,
     <<SpecSrc, SpecFwd, SpecRev>>}

\* complete records; an Options Template has its first field as the scope
LifeInputs ==
    {[type |-> ty, id |-> 256, count |-> Len(sp),
      scope |-> IF ty = FDS_TYPE_TEMPLATE_OPTS /\ sp # <<>> THEN 1 ELSE 0,
      specs |-> sp, cut |-> 0, fail |-> {}] :
        ty \in Types, sp \in LifeRecords}

\* flow keys: every subset of the fields of a template and keys beyond them
Keys == 0..MaxKey

\* the allocation requests of a copy that may fail
CopyFails == {{}, {1}, {2}, {1, 2}}

ParseLife ==
    /\ pc = "idle"
    /\ \E in \in LifeInputs : Parse(in)

\* fds_template_flowkey_define on a template the caller holds
FlowkeyDefine(p, k) ==
    /\ \E r \in {fds_template_flowkey_define(heap[p], k)} :
       /\ heap' = [heap EXCEPT ![p] = r.t]
       /\ c_ret' = r.ret
       /\ fkey' = IF r.ret = FDS_OK THEN [fkey EXCEPT ![p] = k] ELSE fkey
    /\ UNCHANGED <<c_tmplt, c_len, c_cpy, trace, call, pc>>

FlowkeyDefineCall ==
    pc = "parsed" /\ \E p \in Held : \E k \in Keys : FlowkeyDefine(p, k)

\* fds_template_ies_define on a template the caller holds; a failed
\* assertion aborts the process
IesDefine(p, iemgr, preserve) ==
    /\ \E r \in {fds_template_ies_define(heap[p], iemgr, preserve)} :
       /\ heap' = [heap EXCEPT ![p] = r.t]
       /\ pc' = IF r.ok THEN pc ELSE "aborted"
    /\ UNCHANGED <<c_tmplt, c_len, c_cpy, c_ret, trace, call, fkey>>

IesDefineCall ==
    /\ pc = "parsed"
    /\ \E p \in Held : \E iemgr \in Mgrs \cup {NoMgr} : \E preserve \in BOOLEAN :
        IesDefine(p, iemgr, preserve)

\* fds_template_copy of the parsed template; the caller keeps one copy
Copy(fail) ==
    /\ \E r \in {fds_template_copy(Ctx(heap), c_tmplt, fail)} :
       /\ heap' = r.h.mem
       /\ trace' = r.h.trace
       /\ c_cpy' = r.p
       /\ fkey' = IF r.p # NULL THEN [fkey EXCEPT ![r.p] = fkey[c_tmplt]] ELSE fkey
    /\ UNCHANGED <<c_tmplt, c_len, c_ret, call, pc>>

CopyCall ==
    /\ pc = "parsed" /\ c_tmplt # NULL /\ c_cpy = NULL
    /\ \E fail \in CopyFails : Copy(fail)

\* The read-only calls on the templates the caller holds:
\* fds_template_flowkey_applicable, fds_template_flowkey_cmp,
\* fds_template_find / fds_template_cfind and fds_template_cmp take the
\* template by pointer to const; each returns one of its values.
QueryCall ==
    /\ pc = "parsed"
    /\ \A p \in Held : \A q \in Held : \A k \in Keys :
        /\ fds_template_flowkey_applicable(heap[p], k) \in {FDS_OK, FDS_ERR_FORMAT}
        /\ fds_template_flowkey_cmp(heap[p], k) \in {0, 1}
        /\ fds_template_find(heap[p], 0, k) \in 0..heap[p].fields_cnt_total
        /\ fds_template_cmp(heap, heap[p], heap[q]) \in {-1, 0, 1}
    /\ UNCHANGED vars

NextLife ==
    \/ ParseLife
    \/ FlowkeyDefineCall
    \/ IesDefineCall
    \/ CopyCall
    \/ QueryCall
    \/ DestroyCall
    \/ Drop

SpecLife == Init /\ [][NextLife]_vars

----------------------------------------------------------------------------
(* Options Templates of the Metering and the Exporting Process *)

\* a Field Specifier of 4 bytes of an IANA element, and of the element with
\* the same id of enterprise 1
Iana(id) == Spec4(FALSE, id, 0, 4)
Ent1(id) == Spec4(TRUE, id, 1, 4)

\* The Field Specifiers the records of the Metering Process family are drawn
\* from, in their order in a record: the scope identifiers 149 (twice) and
\* 143, the counters 40 (also ahead of the scope identifiers), 41 (also of
\* enterprise 1), 42, 164, 165 and the observation times 324 (early, so that
\* it can be a scope field), 322, 323.
MprocPool ==
    <<Iana(40), Iana(149), Iana(143), Iana(324), Iana(149), Iana(40), Iana(41),
      Ent1(41), Iana(42), Iana(164), Iana(165), Iana(322), Iana(323)>>

\* The same for the Exporting Process family: the exporter identifiers 130
\* (twice, also of enterprise 1), 131 and 144, the counters 166, 167, 168
\* and the observation times 323 (early), 322, 324.
EprocPool ==
    <<Iana(130), Ent1(130), Iana(131), Iana(130), Iana(144), Iana(323),
      Iana(166), Iana(167), Iana(168), Iana(322), Iana(324)>>

\* the elements of pool at the indices of S from index i on, in order
RECURSIVE Pick(_, _, _)
Pick(pool, S, i) ==
    IF i > Len(pool) THEN <<>>
    ELSE (IF i \in S THEN <<pool[i]>> ELSE <<>>) \o Pick(pool, S, i + 1)

\* the non-empty records made of Field Specifiers of a pool
Records(pool) == {Pick(pool, S, 1) : S \in (SUBSET (1..Len(pool))) \ {{}}}

\* complete Options Template records with 1..MaxScope scope fields
OptsInputs ==
    {[type |-> FDS_TYPE_TEMPLATE_OPTS, id |-> 257, count |-> Len(sp), scope |-> sc,
      specs |-> sp, cut |-> 0, fail |-> {}] :
        sc \in 1..MaxScope, sp \in Records(MprocPool) \cup Records(EprocPool)}

ParseOpts ==
    /\ pc = "idle"
    /\ \E in \in OptsInputs :
        /\ in.scope <= in.count
        /\ Parse(in)

NextOpts == ParseOpts \/ DestroyCall \/ Drop

SpecOpts == Init /\ [][NextOpts]_vars

----------------------------------------------------------------------------
(* Vocabulary of the properties *)

\* fds_template_parse has returned and the caller has not moved on
Attempted == pc \in {"parsed", "failed"}

\* fds_template_parse has returned FDS_OK and the template is still held
ParsedOK == pc = "parsed" /\ c_tmplt # NULL

\* the template the caller holds
T == heap[c_tmplt]

RECURSIVE SumTo(_, _)
SumTo(f, n) == IF n = 0 THEN 0 ELSE f[n] + SumTo(f, n - 1)

\* the input of the last call, as the description it was encoded from
InLen == Len(Wire(call))
InHdrLen == IF call.type = FDS_TYPE_TEMPLATE_OPTS /\ call.count > 0 THEN 6 ELSE 4
\* the wire size of the i-th declared Field Specifier (4 where the input ends
\* before it)
InSpecLen == [i \in 1..call.count |->
                 IF i <= Len(call.specs) /\ call.specs[i].ebit THEN 8 ELSE 4]
InFieldsLen == SumTo(InSpecLen, call.count)
\* the data length the declared Field Specifiers add up to
InDataLen ==
    SumTo([i \in 1..call.count |->
              IF i > Len(call.specs) THEN 0
              ELSE IF call.specs[i].length = 65535 THEN 1
              ELSE call.specs[i].length], call.count)

SamePair(f, g) == f.id = g.id /\ f.en = g.en

----------------------------------------------------------------------------
(* C1 *)

\* C1: after every successful fds_template_parse the consumed length is the
\* header size (6 for a non-withdrawal Options template, else 4) plus 4 bytes
\* per declared Field Specifier plus 4 more per enterprise bit; raw.length is
\* that length and raw.data is that prefix of the input, whatever follows.
C1_ConsumedAndRaw ==
    ParsedOK =>
        /\ call.count <= Len(call.specs)
        /\ c_len = InHdrLen + InFieldsLen
        /\ T.raw.length = c_len
        /\ heap[T.raw.data].kind = "raw"
        /\ heap[T.raw.data].data = SubSeq(Wire(call), 1, c_len)

\* an Options template with an enterprise field parsed from an input that
\* goes on after the record
C1_Witness ==
    /\ ParsedOK
    /\ call.type = FDS_TYPE_TEMPLATE_OPTS
    /\ call.count = 2
    /\ call.specs[1].ebit
    /\ ~call.specs[2].ebit
    /\ c_len = 18
    /\ InLen > c_len

----------------------------------------------------------------------------
(* C2 *)

\* the input starts with a withdrawal header
WithdrawalInput == InLen >= 4 /\ call.id >= 256 /\ call.count = 0

WithdrawalResult ==
    /\ c_ret = FDS_OK
    /\ c_len = 4
    /\ c_tmplt # NULL
    /\ T.kind = "tmplt"
    /\ T.type = call.type
    /\ T.fields_cnt_total = 0
    /\ T.fields_cnt_scope = 0
    /\ T.data_length = 0
    /\ T.flags = {}
    /\ T.opts_types = {}

\* C2 as claimed: every input of at least 4 bytes that starts with a
\* withdrawal header (id >= 256, count = 0) is parsed successfully, for both
\* types, consuming 4 bytes into an empty template.
C2_Original == (Attempted /\ WithdrawalInput) => WithdrawalResult

\* C2 as amended: such an input is parsed successfully unless one of the two
\* allocations fails, and then the call returns FDS_ERR_NOMEM.
C2_Withdrawal ==
    (Attempted /\ WithdrawalInput) =>
        IF call.fail = {} THEN WithdrawalResult ELSE c_ret = FDS_ERR_NOMEM

\* an Options withdrawal with bytes after its 4-byte header
C2_Witness ==
    /\ Attempted /\ WithdrawalInput
    /\ call.type = FDS_TYPE_TEMPLATE_OPTS
    /\ InLen >= 6
    /\ call.scope = 0
    /\ WithdrawalResult

----------------------------------------------------------------------------
(* C3 *)

\* the input is malformed in its header or truncated
StructFormatCond ==
    \/ InLen < 4
    \/ call.id < 256
    \/ /\ call.count > 0
       /\ call.type = FDS_TYPE_TEMPLATE_OPTS
       /\ (InLen < 6 \/ call.scope = 0 \/ call.scope > call.count)
    \/ InLen - InHdrLen < InFieldsLen

FormatCond == StructFormatCond \/ InDataLen > 65515

\* C3: when no allocation fails fds_template_parse returns FDS_ERR_FORMAT
\* exactly when the input is shorter than 4 bytes, or id < 256, or it is a
\* non-withdrawal Options record with less than 6 bytes, scope_count = 0 or
\* scope_count > count, or the bytes after the header are too few for the
\* declared Field Specifiers, or the data length exceeds 65515; else FDS_OK.
C3_FormatExactly ==
    (Attempted /\ call.fail = {}) =>
        c_ret = IF FormatCond THEN FDS_ERR_FORMAT ELSE FDS_OK

\* an Options record whose enterprise number is cut short
C3_Witness ==
    /\ pc = "failed" /\ call.fail = {} /\ c_ret = FDS_ERR_FORMAT
    /\ call.type = FDS_TYPE_TEMPLATE_OPTS /\ call.id = 256
    /\ call.count = 1 /\ call.scope = 1
    /\ Len(call.specs) = 1 /\ call.specs[1].ebit
    /\ call.cut = 1

----------------------------------------------------------------------------
(* C4 *)

Mallocs == {i \in 1..Len(trace) : trace[i].op = "malloc" /\ trace[i].blk # NULL}

FreesOf(b) == {i \in 1..Len(trace) : trace[i].op = "free" /\ trace[i].blk = b}

\* C4: on every error return of fds_template_parse each block it allocated
\* has been freed exactly once, nothing stays allocated and the caller's
\* template pointer and length are as before the call; on FDS_OK exactly the
\* structure and its raw buffer are allocated and belong to the template.
C4_AllOrNothing ==
    /\ pc = "failed" =>
        /\ c_ret \in {FDS_ERR_FORMAT, FDS_ERR_NOMEM}
        /\ \A i \in Mallocs : Cardinality(FreesOf(trace[i].blk)) = 1
        /\ \A i \in 1..Len(trace) : trace[i].op # "badfree"
        /\ LiveBlocks(heap) = {}
        /\ c_tmplt = NULL
        /\ c_len = InLen
    /\ ParsedOK =>
        /\ c_ret = FDS_OK
        /\ T.kind = "tmplt"
        /\ T.raw.data # NULL /\ T.raw.data # c_tmplt
        /\ heap[T.raw.data].kind = "raw"
        /\ LiveBlocks(heap) = {c_tmplt, T.raw.data}
        /\ Cardinality(Mallocs) = 2
        /\ Len(trace) = 2

\* a record rejected for its data length, after both blocks were allocated
C4_Witness ==
    /\ pc = "failed" /\ c_ret = FDS_ERR_FORMAT
    /\ Cardinality(Mallocs) = 2
    /\ LiveBlocks(heap) = {}

----------------------------------------------------------------------------
(* C5 *)

N == T.fields_cnt_total

HasFlag(i, f) == f \in T.fields[i].flags

\* C5: in every successfully parsed non-withdrawal template, for every
\* (en, id) pair present exactly one field with that pair carries LAST_IE,
\* and it is the one with the largest index (no later field has the pair).
C5_LastIE ==
    (ParsedOK /\ N > 0) =>
        \A i \in 1..N :
            /\ HasFlag(i, FDS_TFIELD_LAST_IE)
                   <=> ~\E j \in (i + 1)..N : SamePair(T.fields[i], T.fields[j])
            /\ Cardinality({j \in 1..N : /\ SamePair(T.fields[i], T.fields[j])
                                         /\ HasFlag(j, FDS_TFIELD_LAST_IE)}) = 1

\* (0, 8), (0, 72), (1, 8), (0, 8) in some order: a repeated pair and two
\* other pairs on the same prefilter bit
C5_Witness ==
    /\ ParsedOK /\ N = 3
    /\ T.fields[1].id = 8 /\ T.fields[1].en = 0
    /\ T.fields[2].id = 72
    /\ T.fields[3].id = 8 /\ T.fields[3].en = 0
    /\ ~HasFlag(1, FDS_TFIELD_LAST_IE)
    /\ HasFlag(2, FDS_TFIELD_LAST_IE)
    /\ HasFlag(3, FDS_TFIELD_LAST_IE)

----------------------------------------------------------------------------
(* C6 *)

\* C6: in every successfully parsed template a field carries MULTI_IE iff
\* another field has its (en, id) pair, and the template carries
\* HAS_MULTI_IE iff some field carries MULTI_IE.
C6_MultiIE ==
    ParsedOK =>
        /\ \A i \in 1..N :
               HasFlag(i, FDS_TFIELD_MULTI_IE)
                   <=> \E j \in 1..N : j # i /\ SamePair(T.fields[i], T.fields[j])
        /\ FDS_TEMPLATE_HAS_MULTI_IE \in T.flags
               <=> \E i \in 1..N : HasFlag(i, FDS_TFIELD_MULTI_IE)

\* three occurrences of one pair
C6_Witness ==
    /\ ParsedOK /\ N = 3
    /\ SamePair(T.fields[1], T.fields[2]) /\ SamePair(T.fields[2], T.fields[3])
    /\ \A i \in 1..3 : HasFlag(i, FDS_TFIELD_MULTI_IE)
    /\ FDS_TEMPLATE_HAS_MULTI_IE \in T.flags

----------------------------------------------------------------------------
(* C7 *)

IsVar(i) == T.fields[i].length = 65535

VarBefore(i) == \E j \in 1..(i - 1) : IsVar(j)

\* C7: in every successfully parsed template the offset of a field is the
\* (unbounded) sum of the lengths of the fields before it when none of them
\* is variable-length, so these offsets do not decrease and do not wrap, and
\* 65535 when one is; HAS_DYNAMIC is set iff some field has length 65535.
C7_Offsets ==
    ParsedOK =>
        /\ \A i \in 1..N :
               T.fields[i].offset =
                   IF VarBefore(i) THEN 65535
                   ELSE SumTo([j \in 1..N |-> T.fields[j].length], i - 1)
        /\ \A i \in 1..N : \A j \in i..N :
               ~VarBefore(j) => T.fields[i].offset <= T.fields[j].offset
        /\ FDS_TEMPLATE_HAS_DYNAMIC \in T.flags <=> \E i \in 1..N : IsVar(i)

\* a variable-length field between two fixed-length ones
C7_Witness ==
    /\ ParsedOK /\ N = 3
    /\ T.fields[1].length = 1 /\ IsVar(2) /\ T.fields[3].length = 1
    /\ T.fields[1].offset = 0 /\ T.fields[2].offset = 1 /\ T.fields[3].offset = 65535
    /\ FDS_TEMPLATE_HAS_DYNAMIC \in T.flags

----------------------------------------------------------------------------
(* C8 *)

\* C8: in every successfully parsed template data_length is the sum of the
\* fixed lengths plus 1 per variable-length field, not truncated to 16 bits,
\* and at most 65515; an otherwise acceptable record is accepted when that
\* sum is at most 65515 and rejected with FDS_ERR_FORMAT when it is more.
C8_DataLength ==
    /\ ParsedOK =>
        /\ T.data_length =
               SumTo([i \in 1..N |-> IF IsVar(i) THEN 1 ELSE T.fields[i].length], N)
        /\ T.data_length <= 65515
    /\ (Attempted /\ call.fail = {} /\ ~StructFormatCond) =>
        /\ InDataLen <= 65515 => c_ret = FDS_OK
        /\ InDataLen >= 65516 => c_ret = FDS_ERR_FORMAT

\* 65514 bytes and a variable-length field: exactly 65515
C8_Witness ==
    /\ ParsedOK /\ N = 2
    /\ T.data_length = 65515
    /\ FDS_TEMPLATE_HAS_DYNAMIC \in T.flags

----------------------------------------------------------------------------
(* C9 *)

\* the indices of the bits a key of Keys may have set
KeyBits == 0..bit_highest(MaxKey)

\* every set bit of key k has an index below the number of fields of t
BitsFit(t, k) == \A b \in KeyBits : key_bit(k, b) => b < t.fields_cnt_total

\* the flow key annotation of t is the one of key k: the template flag is set
\* iff k is not zero and field i (0-based) carries the flag iff bit i is set
AnnotationOf(t, k) ==
    /\ FDS_TEMPLATE_HAS_FKEY \in t.flags <=> k # 0
    /\ \A i \in 0..(t.fields_cnt_total - 1) :
        FDS_TFIELD_FLOW_KEY \in t.fields[i + 1].flags <=> key_bit(k, i)

\* C9: for every template the caller holds after parsing and any sequence of
\* flow key definitions (accepted or rejected), IE bindings and copies, and
\* every key k, fds_template_flowkey_cmp returns 0 or 1, and 0 exactly when k
\* is applicable and the annotation of the template is the one of k, which is
\* exactly when k is the key of the last accepted definition (0 on a template
\* that never had one).
C9_FlowkeyCmp ==
    \A p \in Held : \A k \in Keys :
        /\ fds_template_flowkey_cmp(heap[p], k) \in {0, 1}
        /\ fds_template_flowkey_cmp(heap[p], k) = 0
               <=> (BitsFit(heap[p], k) /\ AnnotationOf(heap[p], k))
        /\ fds_template_flowkey_cmp(heap[p], k) = 0 <=> k = fkey[p]

\* a copy with a key and bound definitions, the original redefined with
\* another key, the last definition rejected
C9_Witness ==
    /\ pc = "parsed" /\ c_tmplt # NULL /\ c_cpy # NULL
    /\ c_ret = FDS_ERR_FORMAT
    /\ fkey[c_cpy] # 0 /\ fkey[c_tmplt] # 0 /\ fkey[c_tmplt] # fkey[c_cpy]
    /\ \E i \in 1..heap[c_cpy].fields_cnt_total : heap[c_cpy].fields[i].def # NoDef
    /\ fds_template_flowkey_cmp(heap[c_cpy], fkey[c_cpy]) = 0
    /\ fds_template_flowkey_cmp(heap[c_tmplt], fkey[c_cpy]) = 1

----------------------------------------------------------------------------
(* C10 *)

\* C10: for every template the caller holds and every key k,
\* fds_template_flowkey_applicable and fds_template_flowkey_define return
\* FDS_OK when every set bit of k has an index below the number of fields
\* (always for k = 0, also on a withdrawal) and FDS_ERR_FORMAT otherwise; a
\* rejected definition leaves the template as it was, an accepted one leaves
\* the annotation of k and changes nothing else; and the annotation a held
\* template carries is the one of the last accepted key.
C10_FlowkeyDefine ==
    \A p \in Held :
        /\ BitsFit(heap[p], fkey[p]) /\ AnnotationOf(heap[p], fkey[p])
        /\ fds_template_flowkey_applicable(heap[p], 0) = FDS_OK
        /\ \A k \in Keys : \E r \in {fds_template_flowkey_define(heap[p], k)} :
            /\ fds_template_flowkey_applicable(heap[p], k) =
                   (IF BitsFit(heap[p], k) THEN FDS_OK ELSE FDS_ERR_FORMAT)
            /\ r.ret = fds_template_flowkey_applicable(heap[p], k)
            /\ r.ret = FDS_ERR_FORMAT => r.t = heap[p]
            /\ r.ret = FDS_OK =>
                /\ AnnotationOf(r.t, k)
                /\ r.t.flags \ {FDS_TEMPLATE_HAS_FKEY}
                       = heap[p].flags \ {FDS_TEMPLATE_HAS_FKEY}
                /\ \A i \in 1..heap[p].fields_cnt_total :
                    [r.t.fields[i] EXCEPT !.flags = @ \ {FDS_TFIELD_FLOW_KEY}]
                        = [heap[p].fields[i] EXCEPT !.flags = @ \ {FDS_TFIELD_FLOW_KEY}]

\* a definition was rejected on a template that carries an accepted key
C10_Witness ==
    /\ pc = "parsed" /\ c_tmplt # NULL
    /\ c_ret = FDS_ERR_FORMAT
    /\ fkey[c_tmplt] # 0
    /\ FDS_TEMPLATE_HAS_FKEY \in heap[c_tmplt].flags
    /\ \E i \in 1..heap[c_tmplt].fields_cnt_total :
        FDS_TFIELD_FLOW_KEY \notin heap[c_tmplt].fields[i].flags

----------------------------------------------------------------------------
(* C11 *)

\* the raw bytes of template t in memory mem
RawBytes(mem, t) == mem[t.raw.data].data

\* templates a and b agree on everything the structure holds but the address
\* of the raw buffer
SameContent(a, b) ==
    /\ a.type = b.type /\ a.id = b.id
    /\ a.fields_cnt_total = b.fields_cnt_total
    /\ a.fields_cnt_scope = b.fields_cnt_scope
    /\ a.data_length = b.data_length
    /\ a.flags = b.flags /\ a.opts_types = b.opts_types
    /\ a.raw.length = b.raw.length
    /\ \A i \in 1..a.fields_cnt_total :
        /\ a.fields[i].id = b.fields[i].id /\ a.fields[i].en = b.fields[i].en
        /\ a.fields[i].length = b.fields[i].length
        /\ a.fields[i].offset = b.fields[i].offset
        /\ a.fields[i].flags = b.fields[i].flags
        /\ a.fields[i].def = b.fields[i].def

\* template p with its raw buffer is the same before and after the step
Untouched(p) ==
    /\ heap'[p] = heap[p]
    /\ heap'[heap[p].raw.data] = heap[heap[p].raw.data]

\* a step in which fds_template_copy returned a copy
CopyMade == c_cpy = NULL /\ c_cpy' # NULL

\* what C11 says of one step
C11_Step ==
    /\ CopyMade =>
        /\ SameContent(heap'[c_cpy'], heap[c_tmplt])
        /\ RawBytes(heap', heap'[c_cpy']) = RawBytes(heap, heap[c_tmplt])
        /\ fds_template_cmp(heap', heap'[c_tmplt'], heap'[c_cpy']) = 0
        /\ c_cpy' # c_tmplt
        /\ heap'[c_cpy'].raw.data # heap[c_tmplt].raw.data
        /\ c_tmplt' = c_tmplt /\ Untouched(c_tmplt)
    /\ \A p \in Held : \A q \in Held \ {p} :
        (p \notin Held' \/ heap'[p] # heap[p]) =>
            /\ q \in Held'
            /\ Untouched(q)
            /\ heap'[heap[q].raw.data].kind = "raw"

\* C11: fds_template_copy of a template in any state it reaches returns a
\* template with the same type, id, counts, data length, flags, options types,
\* fields (id, en, length, offset, flags, def) and raw bytes, so
\* fds_template_cmp of the two is 0; the copy has a raw buffer of its own, and
\* a later flow key definition, IE binding or destroy of one of the two leaves
\* the other, raw buffer included, as it was.
C11_CopyEquivalence == [][C11_Step]_vars

\* a copy and its original that were changed apart after the copy was made
\* and still compare equal
C11_Witness ==
    /\ pc = "parsed" /\ c_tmplt # NULL /\ c_cpy # NULL
    /\ heap[c_tmplt].raw.data # heap[c_cpy].raw.data
    /\ fds_template_cmp(heap, heap[c_tmplt], heap[c_cpy]) = 0
    /\ heap[c_tmplt].flags # heap[c_cpy].flags
    /\ FDS_TEMPLATE_HAS_REVERSE \in heap[c_cpy].flags
    /\ fkey[c_tmplt] # fkey[c_cpy]

----------------------------------------------------------------------------
(* C12 *)

\* the IE managers a caller may pass, none included
AnyMgr == Mgrs \cup {NoMgr}

\* C12: for every template the caller holds, every IE manager (or none) and
\* either value of preserve, a second fds_template_ies_define with the same
\* arguments right after the first leaves the template, i.e. the def and the
\* flags of every field and the flags of the template, as the first left it.
C12_IesDefineIdempotent ==
    \A p \in Held : \A iemgr \in AnyMgr : \A preserve \in BOOLEAN :
        \E r1 \in {fds_template_ies_define(heap[p], iemgr, preserve)} :
            r1.ok =>
                \E r2 \in {fds_template_ies_define(r1.t, iemgr, preserve)} :
                    /\ r2.ok
                    /\ r2.t = r1.t

\* a biflow template bound by the first dictionary: binding it again changes
\* nothing, while the other dictionary would bind it otherwise
C12_Witness ==
    /\ pc = "parsed" /\ c_tmplt # NULL
    /\ FDS_TEMPLATE_HAS_REVERSE \in T.flags
    /\ \E i \in 1..T.fields_cnt_total : FDS_TFIELD_BKEY_SRC \in T.fields[i].flags
    /\ fds_template_ies_define(T, "D1", FALSE).t = T
    /\ fds_template_ies_define(T, "D2", FALSE).t # T
    /\ fds_template_ies_define(T, "D2", TRUE).t = T

----------------------------------------------------------------------------
(* C13 *)

\* the flags of a field that parsing derives
ParseFlags == {FDS_TFIELD_SCOPE, FDS_TFIELD_MULTI_IE, FDS_TFIELD_LAST_IE}

\* what must never change in the life of template t of memory mem
Frozen(mem, t) ==
    [type |-> t.type, id |-> t.id,
     fields_cnt_total |-> t.fields_cnt_total, fields_cnt_scope |-> t.fields_cnt_scope,
     data_length |-> t.data_length,
     raw |-> t.raw, bytes |-> RawBytes(mem, t),
     fields |-> [i \in 1..t.fields_cnt_total |->
                    [id |-> t.fields[i].id, en |-> t.fields[i].en,
                     length |-> t.fields[i].length, offset |-> t.fields[i].offset,
                     flags |-> t.fields[i].flags \cap ParseFlags]]]

\* template t without the template flags tf, the field flags ff and, with
\* nodef, the definitions
Without(t, tf, ff, nodef) ==
    [t EXCEPT !.flags = @ \ tf,
              !.fields = [i \in 1..Len(t.fields) |->
                             [t.fields[i] EXCEPT !.flags = @ \ ff,
                                                 !.def = IF nodef THEN NoDef ELSE @]]]

\* all that fds_template_ies_define may change
IesOnly(t) ==
    Without(t, {FDS_TEMPLATE_HAS_REVERSE, FDS_TEMPLATE_HAS_STRUCT},
            {FDS_TFIELD_REVERSE, FDS_TFIELD_STRUCTURED} \cup biflags, TRUE)

\* all that fds_template_flowkey_define may change
FlowkeyOnly(t) ==
    Without(t, {FDS_TEMPLATE_HAS_FKEY}, {FDS_TFIELD_FLOW_KEY}, FALSE)

\* the templates held after the step
HeldAfter == {c_tmplt', c_cpy'} \ {NULL}

\* the step is a call of fds_template_ies_define that changed template p
\* (such a call leaves the recorded keys as they are)
IesDefineChanged(p) ==
    /\ heap'[p] # heap[p]
    /\ fkey' = fkey
    /\ \E iemgr \in AnyMgr : \E preserve \in BOOLEAN : IesDefine(p, iemgr, preserve)

\* the step is a call of fds_template_flowkey_define that changed template p
\* (such a call is accepted and its key recorded)
FlowkeyDefineChanged(p) ==
    /\ heap'[p] # heap[p]
    /\ \E k \in {fkey'[p]} : FlowkeyDefine(p, k)

\* what C13 says of one step
C13_Step ==
    \A p \in Held \cap HeldAfter :
        /\ Frozen(heap', heap'[p]) = Frozen(heap, heap[p])
        /\ IesDefineChanged(p) => IesOnly(heap'[p]) = IesOnly(heap[p])
        /\ FlowkeyDefineChanged(p) => FlowkeyOnly(heap'[p]) = FlowkeyOnly(heap[p])

\* C13: from its parsing to its destruction no call (IE binding, flow key
\* definition, the read-only calls, copy) changes the type, id, field counts,
\* data length or raw bytes of a template or the id, en, length, offset and
\* SCOPE, MULTI_IE, LAST_IE flags of a field; fds_template_ies_define changes
\* only def, REVERSE, STRUCTURED, the biflow key flags and HAS_REVERSE /
\* HAS_STRUCT, and fds_template_flowkey_define only FLOW_KEY and HAS_FKEY.
C13_LifecycleImmutable == [][C13_Step]_vars

\* an Options Template with a repeated field that was bound and given a flow
\* key still has what a parse of the same record gives
C13_Witness ==
    /\ pc = "parsed" /\ c_tmplt # NULL
    /\ T.type = FDS_TYPE_TEMPLATE_OPTS
    /\ T.fields_cnt_total >= 2
    /\ FDS_TFIELD_SCOPE \in T.fields[1].flags
    /\ \E i \in 1..T.fields_cnt_total :
        /\ FDS_TFIELD_MULTI_IE \in T.fields[i].flags
        /\ FDS_TFIELD_FLOW_KEY \in T.fields[i].flags
        /\ T.fields[i].def # NoDef
    /\ \E r \in {fds_template_parse(call.type, Wire(call), Len(Wire(call)), NULL,
                                    [b \in Block |-> FreeBlk], {})} :
        Frozen(r.h.mem, r.h.mem[r.tmplt]) = [Frozen(heap, T) EXCEPT !.raw.data = r.h.mem[r.tmplt].raw.data]

----------------------------------------------------------------------------
(* C14 *)

\* a successfully parsed Options Template with fields
ParsedOpts == ParsedOK /\ T.type = FDS_TYPE_TEMPLATE_OPTS /\ N > 0

\* the fields that are the IANA element id
FieldsOf(id) == {i \in 1..N : T.fields[i].en = 0 /\ T.fields[i].id = id}

\* the fields after the scope
NonScope == (T.fields_cnt_scope + 1)..N

\* the IANA element id occurs among the non-scope fields
InNonScope(id) == FieldsOf(id) \cap NonScope # {}

\* every field that is the IANA element id is a scope field defined once
ScopeOnce(id) ==
    \A i \in FieldsOf(id) : HasFlag(i, FDS_TFIELD_SCOPE) /\ ~HasFlag(i, FDS_TFIELD_MULTI_IE)

\* the scope check of the Metering Process detectors
MeteringScope ==
    /\ FieldsOf(149) \cup FieldsOf(143) # {}
    /\ ScopeOnce(149) /\ ScopeOnce(143)

\* C14: a successfully parsed Options Template with fields has MPROC_STAT
\* exactly when IE 149 or IE 143 occurs, each of the two that occurs is a
\* scope field without MULTI_IE, and IE 40, 41 and 42 (all of enterprise 0)
\* occur among the non-scope fields.
C14_MprocStat ==
    ParsedOpts =>
        (FDS_OPTS_MPROC_STAT \in T.opts_types
            <=> (MeteringScope /\ InNonScope(40) /\ InNonScope(41) /\ InNonScope(42)))

\* IE 40 occurs in the scope and after it: the template is recognised by the
\* occurrence after the scope
C14_Witness ==
    /\ ParsedOpts
    /\ FDS_OPTS_MPROC_STAT \in T.opts_types
    /\ T.fields_cnt_scope = 2
    /\ T.fields[1].id = 40 /\ T.fields[2].id = 149
    /\ FieldsOf(143) = {}

----------------------------------------------------------------------------
(* C15 *)

\* exactly two of the non-scope fields are observation times of enterprise 0
ObsTime ==
    Cardinality({i \in NonScope : T.fields[i].en = 0 /\ T.fields[i].id \in 322..325}) = 2

\* the counters of the Metering Process Statistics occur after the scope
MprocCounters == InNonScope(40) /\ InNonScope(41) /\ InNonScope(42)

\* the counters of the Metering Process Reliability Statistics occur after
\* the scope
IgnoredCounters == InNonScope(164) /\ InNonScope(165)

MprocStat == FDS_OPTS_MPROC_STAT \in T.opts_types
MprocReliability == FDS_OPTS_MPROC_RELIABILITY_STAT \in T.opts_types

\* C15 as stated: MPROC_RELIABILITY_STAT is set exactly when the metering
\* scope check passes, IE 40, 41, 42, 164 and 165 occur among the non-scope
\* fields and exactly two non-scope fields are observation times; hence a
\* template with MPROC_RELIABILITY_STAT has MPROC_STAT too.
C15_Original ==
    ParsedOpts =>
        /\ MprocReliability <=> (MeteringScope /\ MprocCounters /\ IgnoredCounters /\ ObsTime)
        /\ MprocReliability => MprocStat

\* C15: a successfully parsed Options Template with fields has
\* MPROC_RELIABILITY_STAT exactly when the metering scope check passes, IE 164
\* and 165 (enterprise 0) occur among the non-scope fields and exactly two
\* non-scope fields are observation times (enterprise 0, id 322..325);
\* IE 40, 41 and 42 play no part in it.
C15_MprocReliability ==
    ParsedOpts => (MprocReliability <=> (MeteringScope /\ IgnoredCounters /\ ObsTime))

\* a template of the reliability statistics without the counters 41 and 42:
\* it has MPROC_RELIABILITY_STAT and not MPROC_STAT
C15_Witness ==
    /\ ParsedOpts
    /\ MprocReliability /\ ~MprocStat
    /\ InNonScope(40) /\ ~InNonScope(41) /\ ~InNonScope(42)

----------------------------------------------------------------------------
(* C16 *)

\* the identifiers of an Exporting Process
ExporterIds == {130, 131, 144}

\* the first field that is the IANA element id
FirstOf(id) == CHOOSE i \in FieldsOf(id) : \A j \in FieldsOf(id) : i <= j

\* some field that is an exporter identifier is a scope field with LAST_IE
ExporterScopeLast ==
    \E id \in ExporterIds : \E i \in FieldsOf(id) :
        HasFlag(i, FDS_TFIELD_SCOPE) /\ HasFlag(i, FDS_TFIELD_LAST_IE)

\* the first field of some exporter identifier is a scope field with LAST_IE
ExporterFirstScopeLast ==
    \E id \in ExporterIds :
        /\ FieldsOf(id) # {}
        /\ HasFlag(FirstOf(id), FDS_TFIELD_SCOPE)
        /\ HasFlag(FirstOf(id), FDS_TFIELD_LAST_IE)

\* the counters of the Exporting Process Reliability Statistics occur after
\* the scope
ExporterCounters == InNonScope(166) /\ InNonScope(167) /\ InNonScope(168)

EprocReliability == FDS_OPTS_EPROC_RELIABILITY_STAT \in T.opts_types

\* C16 as stated: EPROC_RELIABILITY_STAT is set exactly when some field that
\* is IE 130, 131 or 144 is a scope field carrying LAST_IE (the last
\* occurrence of an identifier that occurs more than once included), IE 166,
\* 167 and 168 occur among the non-scope fields and exactly two non-scope
\* fields are observation times.
C16_Original ==
    ParsedOpts =>
        (EprocReliability <=> (ExporterScopeLast /\ ExporterCounters /\ ObsTime))

\* C16: a successfully parsed Options Template with fields has
\* EPROC_RELIABILITY_STAT exactly when for one of IE 130, 131 and 144 the
\* first field with that identifier is a scope field carrying LAST_IE (so the
\* identifier occurs once, in the scope), IE 166, 167 and 168 occur among the
\* non-scope fields and exactly two non-scope fields are observation times.
C16_EprocReliability ==
    ParsedOpts =>
        (EprocReliability <=> (ExporterFirstScopeLast /\ ExporterCounters /\ ObsTime))

\* IE 130 occurs twice in the scope and is passed over, IE 131 occurs once in
\* the scope and the template is recognised by it
C16_Witness ==
    /\ ParsedOpts
    /\ EprocReliability
    /\ T.fields_cnt_scope = 3
    /\ FieldsOf(130) = {1, 3}
    /\ FieldsOf(131) = {2}

----------------------------------------------------------------------------
(* C17 *)

\* field i of t is bound to a reverse definition
BoundReverse(t, i) ==
    t.fields[i].def # NoDef /\ ElemTable[t.fields[i].def].is_reverse

\* field i of t is bound to a definition whose reverse element occurs in t
PairedForward(t, i) ==
    /\ t.fields[i].def # NoDef
    /\ ElemTable[t.fields[i].def].reverse_elem # NoDef
    /\ \E j \in 1..t.fields_cnt_total :
        /\ t.fields[j].en = ElemTable[ElemTable[t.fields[i].def].reverse_elem].pen
        /\ t.fields[j].id = ElemTable[ElemTable[t.fields[i].def].reverse_elem].id

\* the name of the definition of field i of t begins with the word, whatever
\* the case of its letters
NameBegins(t, i, word) ==
    /\ t.fields[i].def # NoDef
    /\ Len(ElemTable[t.fields[i].def].name) >= Len(word)
    /\ \A c \in 1..Len(word) :
        \/ ElemTable[t.fields[i].def].name[c] = word[c]
        \/ ElemTable[t.fields[i].def].name[c] = word[c] - 32

\* the biflow flags of the fields of t are those of its definitions
BiflowClassified(t) ==
    IF FDS_TEMPLATE_HAS_REVERSE \in t.flags
    THEN \A i \in 1..t.fields_cnt_total :
            /\ FDS_TFIEDL_BKEY_COM \in t.fields[i].flags
                <=> (~BoundReverse(t, i) /\ ~PairedForward(t, i))
            /\ FDS_TFIELD_BKEY_SRC \in t.fields[i].flags
                <=> (FDS_TFIEDL_BKEY_COM \in t.fields[i].flags
                        /\ NameBegins(t, i, str_source))
            /\ FDS_TFIELD_BKEY_DST \in t.fields[i].flags
                <=> (FDS_TFIEDL_BKEY_COM \in t.fields[i].flags
                        /\ NameBegins(t, i, str_destination))
    ELSE \A i \in 1..t.fields_cnt_total : t.fields[i].flags \cap biflags = {}

\* a call of fds_template_ies_define other than the one without a dictionary
\* that preserves the definitions, on the held template p
IesDefineStep(p) ==
    /\ pc = "parsed" /\ pc' = "parsed"
    /\ fkey' = fkey
    /\ \E iemgr \in AnyMgr : \E preserve \in BOOLEAN :
        /\ ~(iemgr = NoMgr /\ preserve)
        /\ IesDefine(p, iemgr, preserve)

\* C17: after a call of fds_template_ies_define that is not the no-op one,
\* when the template has HAS_REVERSE a field carries BKEY_COM exactly when it
\* is not bound to a reverse definition and not bound to a definition whose
\* reverse element occurs in the template, and BKEY_SRC (BKEY_DST) exactly
\* when it carries BKEY_COM and the name of its definition begins with
\* "source" ("destination") in any case; when the template does not have
\* HAS_REVERSE no field carries a biflow flag, whatever it carried before.
C17_Step == \A p \in Held : IesDefineStep(p) => BiflowClassified(heap'[p])

C17_BiflowKeys == [][C17_Step]_vars

\* source address, forward counter and reverse counter bound by the
\* dictionary of RFC 5103: the address is a source key, the counters are not
\* common; a copy of it bound by the other dictionary has a destination key
\* and an unbound common key
C17_Witness ==
    /\ pc = "parsed" /\ c_tmplt # NULL /\ c_cpy # NULL
    /\ FDS_TEMPLATE_HAS_REVERSE \in T.flags
    /\ N = 3
    /\ T.fields[1].flags \cap biflags = {FDS_TFIEDL_BKEY_COM, FDS_TFIELD_BKEY_SRC}
    /\ T.fields[2].def = "D1.octetDeltaCount" /\ T.fields[2].flags \cap biflags = {}
    /\ T.fields[3].def = "D1.reverseOctetDeltaCount" /\ T.fields[3].flags \cap biflags = {}
    /\ heap[c_cpy].fields[1].flags \cap biflags = {FDS_TFIEDL_BKEY_COM, FDS_TFIELD_BKEY_DST}
    /\ heap[c_cpy].fields[3].def = NoDef
    /\ heap[c_cpy].fields[3].flags \cap biflags = {FDS_TFIEDL_BKEY_COM}

----------------------------------------------------------------------------
(* C18 *)

\* field i of t is bound to the definition of a list (RFC 6313)
BoundList(t, i) ==
    /\ t.fields[i].def # NoDef
    /\ ElemTable[t.fields[i].def].data_type \in
        {FDS_ET_BASIC_LIST, FDS_ET_SUB_TEMPLATE_LIST, FDS_ET_SUB_TEMPLATE_MULTILIST}

\* the flags of t that follow from the definitions agree with them
BindingConsistent(t) ==
    /\ \A i \in 1..t.fields_cnt_total :
        /\ FDS_TFIELD_REVERSE \in t.fields[i].flags <=> BoundReverse(t, i)
        /\ FDS_TFIELD_STRUCTURED \in t.fields[i].flags <=> BoundList(t, i)
    /\ FDS_TEMPLATE_HAS_REVERSE \in t.flags
        <=> \E i \in 1..t.fields_cnt_total : FDS_TFIELD_REVERSE \in t.fields[i].flags
    /\ FDS_TEMPLATE_HAS_STRUCT \in t.flags
        <=> \E i \in 1..t.fields_cnt_total : FDS_TFIELD_STRUCTURED \in t.fields[i].flags

\* C18: in every state reached by parsing a template and then defining its
\* elements with any dictionary or none, preserving or not, defining flow
\* keys and copying it, a field carries REVERSE exactly when it is bound to a
\* reverse definition and STRUCTURED exactly when it is bound to the
\* definition of a list, the template carries HAS_REVERSE (HAS_STRUCT)
\* exactly when one of its fields carries REVERSE (STRUCTURED), and no
\* assertion of template_ies_biflow has failed.
C18_BindingConsistent ==
    /\ pc # "aborted"
    /\ \A p \in Held : BindingConsistent(heap[p])

\* a template whose fields are bound by the two dictionaries, with a list, a
\* reverse element without a name and a reverse element of RFC 5103, and
\* with a flow key
C18_Witness ==
    /\ pc = "parsed" /\ c_tmplt # NULL
    /\ N = 3
    /\ T.fields[1].def = "D2.DestinationList"
    /\ T.fields[2].def = "D2.octets"
    /\ T.fields[3].def = "D1.reverseOctetDeltaCount"
    /\ {FDS_TEMPLATE_HAS_REVERSE, FDS_TEMPLATE_HAS_STRUCT, FDS_TEMPLATE_HAS_FKEY} \subseteq T.flags
    /\ c_cpy # NULL

====
